---- MODULE Spec2Model ----
(***************************************************************************)
(* Model of the task uploader's text pipeline and of the /todoist handler. *)
(*                                                                         *)
(* A Python str is a sequence of one-character strings.  The inputs are    *)
(* built from the characters listed in Whitespace plus printable ASCII;    *)
(* the only line boundary that occurs in them is "\n".                     *)
(***************************************************************************)
EXTENDS Integers, Sequences, FiniteSets, TLC

----------------------------------------------------------------------------
(* Python str primitives *)

Whitespace == {" ", "\t", "\n"}

Digits == <<"0", "1", "2", "3", "4", "5", "6", "7", "8", "9">>

Drop(s, n) == SubSeq(s, n + 1, Len(s))

StartsWith(s, p) == Len(s) >= Len(p) /\ SubSeq(s, 1, Len(p)) = p

\* str.lstrip()
LStrip(s) ==
    IF \A i \in 1..Len(s) : s[i] \in Whitespace
    THEN <<>>
    ELSE LET i == CHOOSE i \in 1..Len(s) :
                    /\ s[i] \notin Whitespace
                    /\ \A j \in 1..(i - 1) : s[j] \in Whitespace
         IN  Drop(s, i - 1)

\* str.rstrip()
RStrip(s) ==
    IF \A i \in 1..Len(s) : s[i] \in Whitespace
    THEN <<>>
    ELSE LET i == CHOOSE i \in 1..Len(s) :
                    /\ s[i] \notin Whitespace
                    /\ \A j \in (i + 1)..Len(s) : s[j] \in Whitespace
         IN  SubSeq(s, 1, i)

\* str.strip()
Strip(s) == LStrip(RStrip(s))

\* Index of the first occurrence of sep in s, 0 when there is none (str.find + 1).
Find(s, sep) ==
    LET hits == {i \in 1..(Len(s) - Len(sep) + 1) : SubSeq(s, i, i + Len(sep) - 1) = sep}
    IN  IF hits = {} THEN 0 ELSE CHOOSE i \in hits : \A j \in hits : i <= j

\* str.splitlines(): no trailing empty line, "" gives [].
RECURSIVE SplitLines(_)
SplitLines(s) ==
    IF s = <<>> THEN <<>>
    ELSE LET i == Find(s, <<"\n">>)
         IN  IF i = 0 THEN <<s>>
             ELSE <<SubSeq(s, 1, i - 1)>> \o SplitLines(Drop(s, i))

\* str.split(sep) with an explicit separator: always at least one piece.
RECURSIVE Split(_, _)
Split(s, sep) ==
    LET i == Find(s, sep)
    IN  IF i = 0 THEN <<s>>
        ELSE <<SubSeq(s, 1, i - 1)>> \o Split(Drop(s, i + Len(sep) - 1), sep)

\* sep.join(parts)
RECURSIVE Join(_, _)
Join(parts, sep) ==
    IF parts = <<>> THEN <<>>
    ELSE IF Len(parts) = 1 THEN parts[1]
    ELSE parts[1] \o sep \o Join(Tail(parts), sep)

\* [f(x) for x in xs if keep(x)] for the comprehensions of the source
RECURSIVE FilterNonBlank(_)
FilterNonBlank(xs) ==
    IF xs = <<>> THEN <<>>
    ELSE IF Strip(Head(xs)) # <<>>
         THEN <<Head(xs)>> \o FilterNonBlank(Tail(xs))
         ELSE FilterNonBlank(Tail(xs))

StripEach(xs) == [i \in 1..Len(xs) |-> Strip(xs[i])]

----------------------------------------------------------------------------
(* Python values that travel through the structured payload.  Every value   *)
(* has the same four fields so that any two of them can be compared.        *)

NoneV == [kind |-> "none", i |-> 0, s |-> <<>>, l |-> <<>>]
StrV(x) == [kind |-> "str", i |-> 0, s |-> x, l |-> <<>>]
IntV(n) == [kind |-> "int", i |-> n, s |-> <<>>, l |-> <<>>]
ListV(xs) == [kind |-> "list", i |-> 0, s |-> <<>>, l |-> xs]

\* Python truth value: None, "", 0 and [] are false.
Truthy(v) ==
    CASE v.kind = "none" -> FALSE
      [] v.kind = "str" -> v.s # <<>>
      [] v.kind = "int" -> v.i # 0
      [] v.kind = "list" -> v.l # <<>>

\* A dict with str keys taken from PayloadKeys: the keys present and their values.
PayloadKeys == {"project", "task_summary", "tasks", "priority", "due_date", "labels", "project_id"}

EmptyDict == [keys |-> {}, val |-> [k \in PayloadKeys |-> NoneV]]

\* d[k] = v
DictSet(d, k, v) == [keys |-> d.keys \cup {k}, val |-> [d.val EXCEPT ![k] = v]]

\* d.get(k)
DictGet(d, k) == IF k \in d.keys THEN d.val[k] ELSE NoneV

----------------------------------------------------------------------------
(* split_content_into_dict *)

\* key_pattern.match(line): ^!!(?P<key>[^!]+)!!(?::\s*(?P<inline>.*))?$
\* The key is the maximal run of non-"!" characters after the opening "!!";
\* it must be followed by "!!" and then by the end of the line or by ":".
\* hasInline is FALSE when the optional group did not take part in the match.
key_pattern(line) ==
    LET n == Len(line)
        bangs == {k \in 3..n : line[k] = "!"}
        k == IF bangs = {} THEN 0 ELSE CHOOSE k \in bangs : \A j \in bangs : k <= j
        matched == /\ n >= 2 /\ line[1] = "!" /\ line[2] = "!"
                   /\ k >= 4
                   /\ k + 1 <= n /\ line[k + 1] = "!"
                   /\ (k + 1 = n \/ line[k + 2] = ":")
    IN  IF ~matched
        THEN [matched |-> FALSE, key |-> <<>>, hasInline |-> FALSE, inline |-> <<>>]
        ELSE [matched |-> TRUE,
              key |-> SubSeq(line, 3, k - 1),
              hasInline |-> k + 1 < n,
              inline |-> IF k + 1 < n THEN LStrip(Drop(line, k + 2)) ELSE <<>>]

flushMerging(result, hasKey, current_key, buffer) ==
    IF hasKey
    THEN LET value == Strip(Join(buffer, <<"\n">>))
         IN  [k \in DOMAIN result \cup {current_key} |->
                 IF k # current_key THEN result[k]
                 ELSE IF k \in DOMAIN result
                      THEN Strip(Join(<<result[k], value>>, <<"\n">>))
                      ELSE value]
    ELSE result

\* flush(): store the joined, stripped buffer under the open key, if any.
flush(result, hasKey, current_key, buffer) ==
    IF hasKey
    THEN LET value == Strip(Join(buffer, <<"\n">>))
         IN  [k \in DOMAIN result \cup {current_key} |->
                 IF k = current_key THEN value ELSE result[k]]
    ELSE result

ParseLineKeepingPreamble(st, raw_line) ==
    LET match == key_pattern(Strip(raw_line))
    IN  IF match.matched
        THEN [result |-> flush(st.result, st.hasKey, st.current_key, st.buffer),
              hasKey |-> TRUE,
              current_key |-> Strip(match.key),
              buffer |-> IF match.inline # <<>> THEN <<match.inline>> ELSE <<>>]
        ELSE [st EXCEPT !.hasKey = TRUE, !.buffer = Append(@, RStrip(raw_line))]

\* One iteration of the loop over content.splitlines().
ParseLine(st, raw_line) ==
    LET match == key_pattern(Strip(raw_line))
    IN  IF match.matched
        THEN [result |-> flush(st.result, st.hasKey, st.current_key, st.buffer),
              hasKey |-> TRUE,
              current_key |-> Strip(match.key),
              buffer |-> IF match.inline # <<>> THEN <<match.inline>> ELSE <<>>]
        ELSE IF st.hasKey
             THEN [st EXCEPT !.buffer = Append(@, RStrip(raw_line))]
             ELSE st

RECURSIVE ParseLines(_, _)
ParseLines(st, lines) ==
    IF lines = <<>> THEN st
    ELSE ParseLines(ParseLine(st, Head(lines)), Tail(lines))

\* The dict is a function from section names to section texts.
split_content_into_dict(content) ==
    IF content = <<>> THEN <<>>
    ELSE LET st0 == [result |-> <<>>, hasKey |-> FALSE, current_key |-> <<>>, buffer |-> <<>>]
             st == ParseLines(st0, SplitLines(content))
         IN  flush(st.result, st.hasKey, st.current_key, st.buffer)

\* sections.get(name)
SectionGet(sections, name) ==
    IF name \in DOMAIN sections THEN StrV(sections[name]) ELSE NoneV

----------------------------------------------------------------------------
(* int(), str() and ast.literal_eval(), as far as the builder uses them.     *)
(* The literal grammar covered is: a decimal integer, a quoted string        *)
(* without escapes, a bracketed list of those, or a bare tuple of those.     *)
(* Texts with parentheses, nested brackets, adjacent string literals,        *)
(* floats or names such as True and None are outside it and do not occur     *)
(* in the inputs.  Of the set and dict displays only those with a single     *)
(* element or key that is a list are covered: evaluating them raises         *)
(* TypeError (unhashable type), which the builder does not catch.            *)

DigitSet == {Digits[d] : d \in 1..10}

DigitVal(c) == (CHOOSE d \in 1..10 : Digits[d] = c) - 1

RECURSIVE DigitsVal(_)
DigitsVal(ds) ==
    IF ds = <<>> THEN 0
    ELSE 10 * DigitsVal(SubSeq(ds, 1, Len(ds) - 1)) + DigitVal(ds[Len(ds)])

IsDigits(ds) == ds # <<>> /\ \A k \in 1..Len(ds) : ds[k] \in DigitSet

\* int(text) for a stripped text: an optional sign and decimal digits;
\* anything else is a ValueError (ok = FALSE).
IntParse(text) ==
    LET signed == text # <<>> /\ text[1] \in {"+", "-"}
        ds == IF signed THEN Tail(text) ELSE text
    IN  IF IsDigits(ds)
        THEN [ok |-> TRUE,
              v |-> IF signed /\ text[1] = "-" THEN 0 - DigitsVal(ds) ELSE DigitsVal(ds)]
        ELSE [ok |-> FALSE, v |-> 0]

RECURSIVE NatToStr(_)
NatToStr(n) ==
    IF n < 10 THEN <<Digits[n + 1]>>
    ELSE NatToStr(n \div 10) \o <<Digits[(n % 10) + 1]>>

\* str(n) for an int
IntToStr(n) == IF n < 0 THEN <<"-">> \o NatToStr(0 - n) ELSE NatToStr(n)

Quotes == {"'", "\""}

\* Split on the commas that are outside quoted strings.
RECURSIVE SplitTop(_, _, _)
SplitTop(text, quote, cur) ==
    IF text = <<>> THEN <<cur>>
    ELSE LET c == Head(text)
         IN  IF quote # "" 
             THEN SplitTop(Tail(text), IF c = quote THEN "" ELSE quote, Append(cur, c))
             ELSE IF c = ","
                  THEN <<cur>> \o SplitTop(Tail(text), "", <<>>)
                  ELSE SplitTop(Tail(text), IF c \in Quotes THEN c ELSE "", Append(cur, c))

\* A literal element: a quoted string without escapes, or a signed decimal
\* integer (no leading zeros unless the value is zero).  str is str(value),
\* repr is repr(value).
Atom(piece) ==
    LET p == Strip(piece)
        n == Len(p)
        isStr == /\ n >= 2 /\ p[1] \in Quotes /\ p[n] = p[1]
                 /\ \A k \in 2..(n - 1) : p[k] \notin {p[1], "\\", "\n"}
        inner == SubSeq(p, 2, n - 1)
        signed == n >= 1 /\ p[1] \in {"+", "-"}
        ds == IF signed THEN LStrip(Tail(p)) ELSE p
        isInt == /\ IsDigits(ds)
                 /\ (ds[1] # "0" \/ \A k \in 1..Len(ds) : ds[k] = "0")
                 /\ (signed => "\n" \notin {p[k] : k \in 1..n})
        v == IF signed /\ p[1] = "-" THEN 0 - DigitsVal(ds) ELSE DigitsVal(ds)
    IN  IF isStr
        THEN [ok |-> TRUE, str |-> inner,
              repr |-> IF "'" \in {inner[k] : k \in 1..Len(inner)}
                       THEN <<"\"">> \o inner \o <<"\"">>
                       ELSE <<"'">> \o inner \o <<"'">>]
        ELSE IF isInt
        THEN [ok |-> TRUE, str |-> IntToStr(v), repr |-> IntToStr(v)]
        ELSE [ok |-> FALSE, str |-> <<>>, repr |-> <<>>]

\* The elements between the brackets of a list or of a bare tuple; a single
\* trailing comma is allowed.
Elements(text) ==
    LET pieces == SplitTop(text, "", <<>>)
        n == Len(pieces)
    IN  IF n >= 2 /\ Strip(pieces[n]) = <<>> THEN SubSeq(pieces, 1, n - 1) ELSE pieces

\* ast.literal_eval(text) on a stripped, non-empty text.  ok = FALSE stands
\* for SyntaxError / ValueError.  For a list, elems holds str(element) for
\* each element; otherwise scalar holds str(value).
literal_eval(text) ==
    LET n == Len(text)
        chars == {text[k] : k \in 1..n}
        failure == [ok |-> FALSE, isList |-> FALSE, elems |-> <<>>, scalar |-> <<>>]
        bracketed == n >= 2 /\ text[1] = "[" /\ text[n] = "]"
        inner == SubSeq(text, 2, n - 1)
        es == Elements(IF bracketed THEN inner ELSE text)
        allAtoms == \A k \in 1..Len(es) : Atom(es[k]).ok
        isTuple == Len(SplitTop(text, "", <<>>)) >= 2
    IN  IF bracketed /\ Strip(inner) = <<>>
        THEN [ok |-> TRUE, isList |-> TRUE, elems |-> <<>>, scalar |-> <<>>]
        ELSE IF bracketed
        THEN IF allAtoms
             THEN [ok |-> TRUE, isList |-> TRUE,
                   elems |-> [k \in 1..Len(es) |-> Atom(es[k]).str], scalar |-> <<>>]
             ELSE failure
        ELSE IF "\n" \in chars \/ ~allAtoms
        THEN failure
        ELSE IF isTuple
        THEN [ok |-> TRUE, isList |-> FALSE, elems |-> <<>>,
              scalar |-> <<"(">> \o Join([k \in 1..Len(es) |-> Atom(es[k]).repr], <<",", " ">>)
                         \o (IF Len(es) = 1 THEN <<",">> ELSE <<>>) \o <<")">>]
        ELSE [ok |-> TRUE, isList |-> FALSE, elems |-> <<>>, scalar |-> Atom(text).str]

----------------------------------------------------------------------------
(* build_structured_payload_from_sections *)

\* _strip_or_none(value)
strip_or_none(value) ==
    IF value.kind = "str" /\ Strip(value.s) # <<>> THEN StrV(Strip(value.s)) ELSE NoneV

\* The loop over task_block.splitlines().
RECURSIVE TaskLines(_)
TaskLines(lines) ==
    IF lines = <<>> THEN <<>>
    ELSE LET stripped == Strip(Head(lines))
         IN  IF stripped = <<>> THEN TaskLines(Tail(lines))
             ELSE IF StartsWith(stripped, <<"-">>)
                  THEN <<Strip(Tail(stripped))>> \o TaskLines(Tail(lines))
                  ELSE <<stripped>> \o TaskLines(Tail(lines))

BuildProject(structured, sections) ==
    LET project == strip_or_none(SectionGet(sections, <<"P","r","o","j","e","c","t">>))
    IN  IF Truthy(project) THEN DictSet(structured, "project", project) ELSE structured

BuildTaskSummary(structured, sections) ==
    LET task_summary == strip_or_none(
            SectionGet(sections, <<"T","a","s","k"," ","S","u","m","m","a","r","y">>))
    IN  IF Truthy(task_summary) THEN DictSet(structured, "task_summary", task_summary)
        ELSE structured

BuildTasksWholeLines(structured, sections) ==
    LET task_block == SectionGet(sections, <<"T","a","s","k","s">>)
        tasks == FilterNonBlank(StripEach(SplitLines(task_block.s)))
    IN  IF Truthy(task_block) /\ tasks # <<>>
        THEN DictSet(structured, "tasks", ListV(tasks))
        ELSE structured

BuildTasks(structured, sections) ==
    LET task_block == SectionGet(sections, <<"T","a","s","k","s">>)
        tasks == TaskLines(SplitLines(task_block.s))
    IN  IF Truthy(task_block) /\ tasks # <<>>
        THEN DictSet(structured, "tasks", ListV(tasks))
        ELSE structured

BuildPriorityIntOnly(structured, sections) ==
    LET priority_raw == strip_or_none(
            SectionGet(sections, <<"P","r","i","o","r","i","t","y">>))
        parsed == IntParse(priority_raw.s)
    IN  IF Truthy(priority_raw) /\ parsed.ok
        THEN DictSet(structured, "priority", IntV(parsed.v))
        ELSE structured

BuildPriority(structured, sections) ==
    LET priority_raw == strip_or_none(
            SectionGet(sections, <<"P","r","i","o","r","i","t","y">>))
        parsed == IntParse(priority_raw.s)
    IN  IF Truthy(priority_raw)
        THEN DictSet(structured, "priority",
                     IF parsed.ok THEN IntV(parsed.v) ELSE priority_raw)
        ELSE structured

BuildDueDate(structured, sections) ==
    LET due_date == strip_or_none(SectionGet(sections, <<"D","u","e"," ","D","a","t","e">>))
    IN  IF Truthy(due_date) THEN DictSet(structured, "due_date", due_date) ELSE structured

BuildLabels(structured, sections) ==
    LET labels_raw == strip_or_none(SectionGet(sections, <<"L","a","b","e","l","s">>))
        parsed_labels == literal_eval(labels_raw.s)
        labels == StripEach(FilterNonBlank(Split(labels_raw.s, <<",">>)))
    IN  IF ~Truthy(labels_raw) THEN structured
        ELSE IF parsed_labels.ok
        THEN DictSet(structured, "labels",
                     IF parsed_labels.isList THEN ListV(parsed_labels.elems)
                     ELSE ListV(<<parsed_labels.scalar>>))
        ELSE IF labels # <<>> THEN DictSet(structured, "labels", ListV(labels))
        ELSE structured

\* ast.literal_eval(text) raises TypeError: text is "{<list>}" or
\* "{<list>: <atom>}".
UnhashableDisplay(text) ==
    LET n == Len(text)
        inner == SubSeq(text, 2, n - 1)
        colon == Find(inner, <<":">>)
        key == Strip(IF colon = 0 THEN inner ELSE SubSeq(inner, 1, colon - 1))
    IN  /\ n >= 2 /\ text[1] = "{" /\ text[n] = "}"
        /\ literal_eval(key).ok /\ literal_eval(key).isList
        /\ (colon = 0 \/ Atom(Drop(inner, colon)).ok)

\* The call of the builder ends with an exception instead of a payload: the
\* except clause of lines 147 lets everything but SyntaxError and ValueError
\* through.
BuildRaises(sections) ==
    LET labels_raw == strip_or_none(SectionGet(sections, <<"L","a","b","e","l","s">>))
    IN  Truthy(labels_raw) /\ UnhashableDisplay(labels_raw.s)

build_structured_payload_from_sections(sections) ==
    BuildLabels(BuildDueDate(BuildPriority(BuildTasks(BuildTaskSummary(
        BuildProject(EmptyDict, sections), sections), sections), sections), sections), sections)

----------------------------------------------------------------------------
(* format_todo_suggestion_text *)

\* repr(label) for a str without backslashes, and str(labels) for a list of them
ReprStr(x) ==
    IF "'" \in {x[k] : k \in 1..Len(x)} /\ "\"" \notin {x[k] : k \in 1..Len(x)}
    THEN <<"\"">> \o x \o <<"\"">>
    ELSE <<"'">> \o x \o <<"'">>

ListToStr(xs) == <<"[">> \o Join([k \in 1..Len(xs) |-> ReprStr(xs[k])], <<",", " ">>) \o <<"]">>

Placeholder == <<"(","b","r","a","k"," ","p","o","z","y","c","j","i",")">>

\* The lines the formatter joins, in four groups, so that an edited text can
\* leave a group out.
HeadLines(suggestion) ==
    << <<"!","!","P","r","o","j","e","c","t","!","!",":"," ">> \o suggestion.project >>

SummaryLines(suggestion) ==
    << <<"!","!","T","a","s","k"," ","S","u","m","m","a","r","y","!","!",":"," ">>
         \o suggestion.task_summary >>

TasksHeader == << <<"!","!","T","a","s","k","s","!","!",":">> >>

ItemLines(suggestion) ==
    IF suggestion.tasks # <<>>
    THEN [k \in 1..Len(suggestion.tasks) |-> <<"-", " ">> \o suggestion.tasks[k]]
    ELSE << <<"-", " ">> \o Placeholder >>

TailLines(suggestion) ==
    << <<"!","!","P","r","i","o","r","i","t","y","!","!",":"," ">> \o IntToStr(suggestion.priority) >>
    \o (IF suggestion.due_date # <<>>
        THEN << <<"!","!","D","u","e"," ","D","a","t","e","!","!",":"," ">> \o suggestion.due_date >>
        ELSE <<>>)
    \o (IF suggestion.labels # <<>>
        THEN << <<"!","!","L","a","b","e","l","s","!","!",":"," ">> \o ListToStr(suggestion.labels) >>
        ELSE <<>>)

format_todo_suggestion_text(suggestion) ==
    Join(HeadLines(suggestion) \o SummaryLines(suggestion) \o TasksHeader
         \o ItemLines(suggestion) \o TailLines(suggestion), <<"\n">>)

----------------------------------------------------------------------------
(* The /todoist handler (create_todoist_task in uploader_main.py) and the    *)
(* task-creation client it calls.  The handler imports the client as        *)
(* create_todoist_task_api and parses with its own copies of                 *)
(* split_content_into_dict and build_structured_payload_from_sections        *)
(* (uploader_main.py 165-263), which are the same code as the ones in        *)
(* services/todoist_processing.py.  Each call of the client is two steps:    *)
(* the call is made, and the backend answers.                                *)

VARIABLES
    logged_in,           \* 'username' in session
    account,             \* AccountSettings of the session's user
    request,             \* JSON body: content, structured, project_id
    given,               \* what the content was written from (for the properties)
    pc,                  \* position of the handler
    content,             \* handler locals ...
    sections,
    structured_payload,
    project_id,
    list_of_tasks,
    todoist_response,
    subtask_index,
    calls,               \* calls of the client, in the order they were made
    backend,             \* tasks stored by the Todoist backend
    next_id,             \* id the backend assigns to the next task
    response,            \* HTTP response of the handler
    session_storage,     \* the language selection kept in the session
    language_call        \* the last call of the language functions on the session

vars == <<logged_in, account, request, given, pc, content, sections, structured_payload,
          project_id, list_of_tasks, todoist_response, subtask_index, calls, backend,
          next_id, response, session_storage, language_call>>

language_vars == <<session_storage, language_call>>

\* No language stored, no call made
NoSelection == [whisper_language_key |-> NoneV, whisper_language |-> NoneV]
NoCall == [op |-> "none", arg |-> NoneV, outcome |-> "none", before |-> NoSelection]

\* Bounds
MaxItems == 2

\* Input texts
ItemPool == << <<"m","i","l","k">>, <<"e","g","g","s">>, <<"t","e","a">>, <<"j","a","m">> >>
SummaryText == <<"B","u","y"," ","g","r","o","c","e","r","i","e","s">>
TaskSummaryKey == <<"T","a","s","k"," ","S","u","m","m","a","r","y">>
TasksKey == <<"T","a","s","k","s">>

Suggestions ==
    {[project |-> <<"H","o","m","e">>, task_summary |-> SummaryText,
      tasks |-> SubSeq(ItemPool, 1, n), priority |-> 2,
      due_date |-> <<"2","0","2","6","-","0","1","-","0","5">>,
      labels |-> << <<"w","o","r","k">> >>] : n \in 0..MaxItems}

\* The text the user submits: the formatter's output, possibly edited by
\* removing the summary line, blanking the summary, or removing the item lines.
Edits == {"none", "no_summary", "blank_summary", "no_items"}

EditedText(suggestion, edit) ==
    Join(HeadLines(suggestion)
         \o (CASE edit = "no_summary" -> <<>>
               [] edit = "blank_summary" -> SummaryLines([suggestion EXCEPT !.task_summary = <<>>])
               [] OTHER -> SummaryLines(suggestion))
         \o TasksHeader
         \o (IF edit = "no_items" THEN <<>> ELSE ItemLines(suggestion))
         \o TailLines(suggestion), <<"\n">>)

\* The items of the Tasks section of EditedText(suggestion, edit).
EditedItems(suggestion, edit) ==
    IF edit = "no_items" THEN <<>>
    ELSE IF suggestion.tasks = <<>> THEN <<Placeholder>>
    ELSE suggestion.tasks

NoSuggestion ==
    [project |-> <<>>, task_summary |-> <<>>, tasks |-> <<>>, priority |-> 0,
     due_date |-> <<>>, labels |-> <<>>]

NoText ==
    [written |-> FALSE, suggestion |-> NoSuggestion, has_summary |-> FALSE,
     summary |-> <<>>, items |-> <<>>]

\* Texts typed by the user instead of generated: a summary line and a Tasks
\* section with the given lines.  The items are read off the lines: every
\* non-blank line without its "- " marker and the whitespace around it.
TypedTasksLines ==
    {<<<<"-"," ","c","a","l","l"," ","B","o","b"," ","-"," ","t","o","d","a","y">>, <<"-"," ","m","i","l","k">>>>,
     <<<<"-"," "," ","m","i","l","k"," ">>, <<>>, <<"-"," ","e","g","g","s">>>>}

ItemOfLine(line) ==
    IF StartsWith(Strip(line), <<"-", " ">>) THEN Strip(Drop(Strip(line), 2)) ELSE Strip(line)

TypedCases ==
    {[text |-> StrV(Join(SummaryLines([NoSuggestion EXCEPT !.task_summary = SummaryText])
                         \o TasksHeader \o lines, <<"\n">>)),
      given |-> [written |-> FALSE, suggestion |-> NoSuggestion, has_summary |-> TRUE,
                 summary |-> SummaryText,
                 items |-> [k \in 1..Len(FilterNonBlank(lines)) |->
                               ItemOfLine(FilterNonBlank(lines)[k])]]] :
        lines \in TypedTasksLines}

ContentCases ==
    {[text |-> StrV(EditedText(s, e)),
      given |-> [written |-> TRUE, suggestion |-> s, has_summary |-> e # "no_summary",
                 summary |-> IF e = "none" \/ e = "no_items" THEN s.task_summary ELSE <<>>,
                 items |-> EditedItems(s, e)]] :
        s \in Suggestions, e \in Edits}
    \cup {[text |-> c, given |-> NoText] : c \in {NoneV, StrV(<<>>), StrV(<<" ", "\n">>)}}
    \cup TypedCases

\* The 'structured' member of the request: missing, {}, not a dict, or a dict.
Override(keys, priority, due_date, labels) ==
    [keys |-> keys,
     val |-> [k \in PayloadKeys |->
                 CASE k = "priority" /\ k \in keys -> priority
                   [] k = "due_date" /\ k \in keys -> due_date
                   [] k = "labels" /\ k \in keys -> labels
                   [] OTHER -> NoneV]]

StructuredInputs ==
    {[kind |-> "none", d |-> EmptyDict],
     [kind |-> "list", d |-> EmptyDict],
     [kind |-> "dict", d |-> EmptyDict],
     [kind |-> "dict", d |-> Override({"priority", "due_date", "labels"}, IntV(4),
                                      StrV(<<"2","0","2","6","-","0","2","-","0","9">>),
                                      ListV(<< <<"h","o","m","e">>, <<"x">> >>))],
     [kind |-> "dict", d |-> Override({"labels"}, NoneV, NoneV, ListV(<< <<"x">> >>))]}

ProjectIdInputs == {NoneV, StrV(<<" ">>), StrV(<<" ", "p", "1", " ">>), IntV(77)}

Accounts ==
    {[todoist_api_token |-> NoneV, todoist_project_id |-> NoneV],
     [todoist_api_token |-> StrV(<<"t","o","k">>), todoist_project_id |-> NoneV],
     [todoist_api_token |-> StrV(<<"t","o","k">>), todoist_project_id |-> StrV(<<"d","9">>)]}

FirstIds == {1, 41}

\* Status codes with which the backend rejects a request.
RejectCodes == {403, 500}

NoResponse == [status |-> 0, error |-> "", success |-> FALSE]

Init ==
    /\ logged_in \in BOOLEAN
    /\ account \in Accounts
    /\ \E c \in ContentCases, st \in StructuredInputs, p \in ProjectIdInputs :
          /\ request = [content |-> c.text, structured |-> st, project_id |-> p]
          /\ given = c.given
    /\ pc = "start"
    /\ content = <<>>
    /\ sections = <<>>
    /\ structured_payload = EmptyDict
    /\ project_id = <<>>
    /\ list_of_tasks = <<>>
    /\ todoist_response = NoneV
    /\ subtask_index = 0
    /\ calls = <<>>
    /\ backend = {}
    /\ next_id \in FirstIds
    /\ response = NoResponse
    /\ session_storage = NoSelection
    /\ language_call = NoCall

\* str(value) for the values a JSON body can hold here
PyStr(v) == IF v.kind = "int" THEN IntToStr(v.i) ELSE v.s

\* jsonify({'error': ...}), status
ErrorResponse(status, error) == [status |-> status, error |-> error, success |-> FALSE]

OkResponse == [status |-> 200, error |-> "", success |-> TRUE]

\* Variant of ChooseStructured that always rebuilds the payload from the text.
ChooseStructuredAlwaysBuilt(structured_in, parsed, pid) ==
    LET chosen == build_structured_payload_from_sections(parsed)
    IN  IF pid # <<>> THEN DictSet(chosen, "project_id", StrV(pid)) ELSE chosen

\* structured_payload after lines 469-478: the override when it is a
\* non-empty dict, else the payload built from the sections; then project_id
\* is stored in it when one was sent.
ChooseStructured(structured_in, parsed, pid) ==
    LET chosen == IF structured_in.kind # "dict" \/ structured_in.d.keys = {}
                  THEN build_structured_payload_from_sections(parsed)
                  ELSE structured_in.d
    IN  IF pid # <<>> THEN DictSet(chosen, "project_id", StrV(pid)) ELSE chosen

\* Variant of Validate without the project check.
ValidateContentOnly(text, pid, default_project_id) ==
    IF text = <<>> THEN "empty_content" ELSE "ok"

\* The checks of lines 481-487, in the order of the code.
Validate(text, pid, default_project_id) ==
    IF text = <<>> THEN "empty_content"
    ELSE IF pid = <<>> /\ default_project_id = <<>> THEN "no_project"
    ELSE "ok"

\* Variant of ResolveProjectId that prefers the account's default.
ResolveProjectIdDefaultFirst(pid, default_project_id) ==
    IF default_project_id # <<>> THEN default_project_id ELSE pid

\* project_id after lines 489-490
ResolveProjectId(pid, default_project_id) ==
    IF pid # <<>> THEN pid ELSE default_project_id

\* Variant of SplitTasks that yields the items last to first.
SplitTasksReversed(tasks_section) ==
    LET items == IF tasks_section # <<>>
                 THEN FilterNonBlank(Split(tasks_section, <<"-", " ">>)) ELSE <<>>
    IN  [k \in 1..Len(items) |-> items[Len(items) + 1 - k]]

\* lines 510-511: split the raw Tasks text on "- " and drop the blank pieces
SplitTasks(tasks_section) ==
    IF tasks_section # <<>> THEN FilterNonBlank(Split(tasks_section, <<"-", " ">>)) ELSE <<>>

\* Variant of CreateCall that passes the labels to the parent call only.
CreateCallLabelsOnParentOnly(text, parent_id) ==
    [content |-> text,
     project_id |-> project_id,
     parent_id |-> parent_id,
     priority |-> DictGet(structured_payload, "priority"),
     due_date |-> DictGet(structured_payload, "due_date"),
     labels |-> IF parent_id = NoneV THEN DictGet(structured_payload, "labels") ELSE NoneV,
     outcome |-> "pending",
     status |-> 0]

\* The arguments of one call of the client, with the way the call ended and,
\* for a rejected request, the status code of the backend's answer.
CreateCall(text, parent_id) ==
    [content |-> text,
     project_id |-> project_id,
     parent_id |-> parent_id,
     priority |-> DictGet(structured_payload, "priority"),
     due_date |-> DictGet(structured_payload, "due_date"),
     labels |-> DictGet(structured_payload, "labels"),
     outcome |-> "pending",
     status |-> 0]

\* The client refuses blank content before it sends anything (ValueError).
ClientRefuses(call) == Strip(call.content) = <<>>

\* The task the backend stores for a request: the client sends a field only
\* when its value is truthy.
StoredTask(call, id) ==
    [id |-> id,
     content |-> Strip(call.content),
     project_id |-> call.project_id,
     parent_id |-> call.parent_id,
     due_date |-> IF Truthy(call.due_date) THEN call.due_date ELSE NoneV,
     priority |-> IF Truthy(call.priority) THEN call.priority ELSE NoneV,
     labels |-> IF Truthy(call.labels) THEN call.labels ELSE NoneV]

SetOutcome(cs, outcome) == [cs EXCEPT ![Len(cs)].outcome = outcome]

\* Lines 455-496: session and account checks, reading and validating the request.
ReadRequest ==
    /\ pc = "start"
    /\ IF ~logged_in
       THEN /\ response' = ErrorResponse(401, "not_logged_in")
            /\ pc' = "done"
            /\ UNCHANGED <<content, sections, structured_payload, project_id>>
       ELSE IF ~Truthy(account.todoist_api_token)
       THEN /\ response' = ErrorResponse(400, "no_api_token")
            /\ pc' = "done"
            /\ UNCHANGED <<content, sections, structured_payload, project_id>>
       ELSE LET text == IF Truthy(request.content) THEN Strip(PyStr(request.content)) ELSE <<>>
                pid == IF request.project_id.kind # "none"
                       THEN Strip(PyStr(request.project_id)) ELSE <<>>
                parsed == split_content_into_dict(text)
                default_project_id ==
                    IF Truthy(account.todoist_project_id)
                    THEN Strip(account.todoist_project_id.s) ELSE <<>>
            IN  /\ content' = text
                /\ sections' = parsed
                /\ structured_payload' = ChooseStructured(request.structured, parsed, pid)
                /\ IF Validate(text, pid, default_project_id) # "ok"
                   THEN /\ response' = ErrorResponse(400, Validate(text, pid, default_project_id))
                        /\ pc' = "done"
                        /\ project_id' = pid
                   ELSE /\ response' = response
                        /\ pc' = "parent"
                        /\ project_id' = ResolveProjectId(pid, default_project_id)
    /\ UNCHANGED <<logged_in, account, request, given, list_of_tasks, todoist_response,
                   subtask_index, calls, backend, next_id>>
    /\ UNCHANGED language_vars

\* Lines 498-507: the parent call.  sections['Task Summary'] raises KeyError
\* when the section is missing; the handler's last except clause answers 502.
CallParent ==
    /\ pc = "parent"
    /\ IF TaskSummaryKey \notin DOMAIN sections
       THEN /\ response' = ErrorResponse(502, "connection_error")
            /\ pc' = "done"
            /\ calls' = calls
       ELSE LET call == CreateCall(sections[TaskSummaryKey], NoneV)
            IN  IF ClientRefuses(call)
                THEN /\ calls' = Append(calls, [call EXCEPT !.outcome = "value_error"])
                     /\ response' = ErrorResponse(400, "value_error")
                     /\ pc' = "done"
                ELSE /\ calls' = Append(calls, call)
                     /\ response' = response
                     /\ pc' = "await_parent"
    /\ UNCHANGED <<logged_in, account, request, given, content, sections, structured_payload,
                   project_id, list_of_tasks, todoist_response, subtask_index, backend, next_id>>
    /\ UNCHANGED language_vars

\* The backend answers 200/201 to the parent request; lines 510-516.
ParentCreated ==
    /\ pc = "await_parent"
    /\ calls' = SetOutcome(calls, "created")
    /\ backend' = backend \cup {StoredTask(calls[Len(calls)], next_id)}
    /\ next_id' = next_id + 1
    /\ todoist_response' = StrV(NatToStr(next_id))
    /\ LET tasks_section == IF TasksKey \in DOMAIN sections THEN sections[TasksKey] ELSE <<>>
           tasks == SplitTasks(tasks_section)
       IN  /\ list_of_tasks' = tasks
           /\ IF Len(tasks) > 0
              THEN /\ subtask_index' = 1
                   /\ pc' = "subtask"
                   /\ response' = response
              ELSE /\ subtask_index' = subtask_index
                   /\ pc' = "done"
                   /\ response' = OkResponse
    /\ UNCHANGED <<logged_in, account, request, given, content, sections, structured_payload,
                   project_id>>
    /\ UNCHANGED language_vars

\* Lines 519-530: the call for the next item of list_of_tasks.
CallSubtask ==
    /\ pc = "subtask"
    /\ LET call == CreateCall(Strip(list_of_tasks[subtask_index]), todoist_response)
       IN  IF ClientRefuses(call)
           THEN /\ calls' = Append(calls, [call EXCEPT !.outcome = "value_error"])
                /\ response' = ErrorResponse(400, "value_error")
                /\ pc' = "done"
           ELSE /\ calls' = Append(calls, call)
                /\ response' = response
                /\ pc' = "await_subtask"
    /\ UNCHANGED <<logged_in, account, request, given, content, sections, structured_payload,
                   project_id, list_of_tasks, todoist_response, subtask_index, backend, next_id>>
    /\ UNCHANGED language_vars

\* The backend answers 200/201 to a subtask request; the loop goes on or the
\* handler answers 200 (lines 537-542).
SubtaskCreated ==
    /\ pc = "await_subtask"
    /\ calls' = SetOutcome(calls, "created")
    /\ backend' = backend \cup {StoredTask(calls[Len(calls)], next_id)}
    /\ next_id' = next_id + 1
    /\ IF subtask_index < Len(list_of_tasks)
       THEN /\ subtask_index' = subtask_index + 1
            /\ pc' = "subtask"
            /\ response' = response
       ELSE /\ subtask_index' = subtask_index
            /\ pc' = "done"
            /\ response' = OkResponse
    /\ UNCHANGED <<logged_in, account, request, given, content, sections, structured_payload,
                   project_id, list_of_tasks, todoist_response>>
    /\ UNCHANGED language_vars

\* Variant of Rejected in which a rejected parent does not stop the handler:
\* it goes on to the items of the Tasks section.
RejectedThenSubtasks ==
    /\ pc \in {"await_parent", "await_subtask"}
    /\ calls' = SetOutcome(calls, "rejected")
    /\ LET tasks_section == IF TasksKey \in DOMAIN sections THEN sections[TasksKey] ELSE <<>>
           tasks == FilterNonBlank(Split(tasks_section, <<"-", " ">>))
       IN  IF pc = "await_parent" /\ Len(tasks) > 0
           THEN /\ list_of_tasks' = tasks
                /\ subtask_index' = 1
                /\ pc' = "subtask"
                /\ response' = response
           ELSE /\ \E code \in RejectCodes : response' = ErrorResponse(code, "todoist_error")
                /\ pc' = "done"
                /\ UNCHANGED <<list_of_tasks, subtask_index>>
    /\ UNCHANGED <<logged_in, account, request, given, content, sections, structured_payload,
                   project_id, todoist_response, backend, next_id>>
    /\ UNCHANGED language_vars

\* Variant of Rejected that removes the tasks of the run when a call is rejected.
RejectedWithRollback ==
    /\ pc \in {"await_parent", "await_subtask"}
    /\ \E code \in RejectCodes : response' = ErrorResponse(code, "todoist_error")
    /\ calls' = SetOutcome(calls, "rejected")
    /\ backend' = {}
    /\ pc' = "done"
    /\ UNCHANGED <<logged_in, account, request, given, content, sections, structured_payload,
                   project_id, list_of_tasks, todoist_response, subtask_index, next_id>>
    /\ UNCHANGED language_vars

\* The backend answers with another status: the client raises TodoistError
\* and the handler answers with that status (lines 546-547).
Rejected ==
    /\ pc \in {"await_parent", "await_subtask"}
    /\ \E code \in RejectCodes :
          /\ calls' = [SetOutcome(calls, "rejected") EXCEPT ![Len(calls)].status = code]
          /\ response' = ErrorResponse(calls'[Len(calls)].status, "todoist_error")
    /\ pc' = "done"
    /\ UNCHANGED <<logged_in, account, request, given, content, sections, structured_payload,
                   project_id, list_of_tasks, todoist_response, subtask_index, backend, next_id>>
    /\ UNCHANGED language_vars

\* requests.post raises (timeout, no connection): lines 548-549.
Unreachable ==
    /\ pc \in {"await_parent", "await_subtask"}
    /\ response' = ErrorResponse(502, "connection_error")
    /\ calls' = SetOutcome(calls, "unreachable")
    /\ pc' = "done"
    /\ UNCHANGED <<logged_in, account, request, given, content, sections, structured_payload,
                   project_id, list_of_tasks, todoist_response, subtask_index, backend, next_id>>
    /\ UNCHANGED language_vars

\* The backend answers 200/201 with a body that is no JSON document (the
\* answer of a proxy, say; the task may or may not have been stored):
\* response.json() raises a JSONDecodeError, which is a ValueError, and the
\* handler answers as for a refused content (lines 544-545).
Undecodable ==
    /\ pc \in {"await_parent", "await_subtask"}
    /\ calls' = SetOutcome(calls, "undecodable")
    /\ \/ backend' = backend /\ next_id' = next_id
       \/ backend' = backend \cup {StoredTask(calls[Len(calls)], next_id)} /\ next_id' = next_id + 1
    /\ response' = ErrorResponse(400, "value_error")
    /\ pc' = "done"
    /\ UNCHANGED <<logged_in, account, request, given, content, sections, structured_payload,
                   project_id, list_of_tasks, todoist_response, subtask_index>>
    /\ UNCHANGED language_vars

Next ==
    \/ ReadRequest
    \/ CallParent
    \/ ParentCreated
    \/ CallSubtask
    \/ SubtaskCreated
    \/ Rejected
    \/ Unreachable
    \/ Undecodable

Spec == Init /\ [][Next]_vars

----------------------------------------------------------------------------
(* Properties of the /todoist handler *)

FailedOutcomes == {"rejected", "unreachable", "undecodable", "value_error"}

\* What the request asks for, read off the request itself.
ContentIsBlank == ~Truthy(request.content) \/ Strip(PyStr(request.content)) = <<>>

ExplicitProjectGiven ==
    request.project_id.kind # "none" /\ Strip(PyStr(request.project_id)) # <<>>

DefaultProjectGiven ==
    Truthy(account.todoist_project_id) /\ Strip(account.todoist_project_id.s) # <<>>

Authorised == logged_in /\ Truthy(account.todoist_api_token)

OverrideGiven == request.structured.kind = "dict" /\ request.structured.d.keys # {}

\* C1: if the parent create call fails, no further create call is made in the
\* run: the parent call stays the only one and no call carries a parent id.
C1_ParentFailureShortCircuits ==
    (Len(calls) >= 1 /\ calls[1].outcome \in FailedOutcomes)
        => /\ Len(calls) = 1
           /\ calls[1].parent_id = NoneV

\* A run with two items in the Tasks section whose parent call was rejected.
C1_Witness ==
    /\ pc = "done"
    /\ Len(calls) = 1
    /\ calls[1].outcome = "rejected"
    /\ Len(given.items) >= 2

\* C2: a call is issued only after every earlier call has returned; the first
\* call is the parent, and the subtask calls follow in the order of the items
\* of the Tasks section.
C2_SequentialInItemOrder ==
    /\ \A i \in 1..(Len(calls) - 1) : calls[i].outcome # "pending"
    /\ \A i \in 2..Len(calls) : calls[1].outcome = "created"
    /\ Len(calls) >= 1 => calls[1].parent_id = NoneV
    /\ given.written =>
          \A i \in 2..Len(calls) :
              /\ i - 1 <= Len(given.items)
              /\ calls[i].content = given.items[i - 1]
              /\ calls[i].parent_id # NoneV

\* The second subtask call is in flight.
C2_Witness ==
    /\ Len(calls) = 3
    /\ calls[3].outcome = "pending"
    /\ calls[3].content = ItemPool[2]

\* C3 (as claimed): the parent content is "<task_summary> (<item>)" for exactly
\* one item and task_summary alone otherwise.
C3_ParentContentFoldsSingleItem ==
    (Len(calls) >= 1 /\ given.written /\ given.summary # <<>>)
        => calls[1].content =
              IF Len(given.items) = 1
              THEN given.summary \o <<" ", "(">> \o given.items[1] \o <<")">>
              ELSE given.summary

\* C4 (as claimed): in a run in which every call succeeds there are no subtask
\* calls for fewer than two items and n subtask calls for n >= 2 items.
C4_SubtaskCallCount ==
    (pc = "done" /\ response.success /\ given.written)
        => Len(calls) = IF Len(given.items) <= 1 THEN 1 ELSE 1 + Len(given.items)

\* C5: every subtask call carries the id the backend returned for the parent
\* of this run, and the project id, priority, due date and labels of the
\* parent call.
C5_SubtasksCarryParentFields ==
    \A i \in 2..Len(calls) :
        /\ \E task \in backend :
              /\ task.parent_id = NoneV
              /\ calls[i].parent_id = StrV(NatToStr(task.id))
        /\ calls[i].project_id = calls[1].project_id
        /\ calls[i].priority = calls[1].priority
        /\ calls[i].due_date = calls[1].due_date
        /\ calls[i].labels = calls[1].labels

\* Two subtask calls were made under a parent whose id is not the first id.
C5_Witness ==
    /\ Len(calls) = 3
    /\ calls[3].parent_id = StrV(<<"4", "1">>)
    /\ calls[3].labels # NoneV
    /\ calls[3].priority # NoneV

\* C6: when the call for subtask k fails, it is the last call of the run, the
\* handler answers with a failure, and the backend still holds the parent
\* and the subtasks created before it.
C6_SubtaskFailureLeavesCreatedTasks ==
    \A k \in 2..Len(calls) :
        calls[k].outcome \in FailedOutcomes
            => /\ Len(calls) = k
               /\ pc = "done"
               /\ ~response.success
               /\ response.status # 200
               /\ Cardinality(backend) >= k - 1
               /\ (calls[k].outcome # "undecodable" => Cardinality(backend) = k - 1)
               /\ \A j \in 1..(k - 1) :
                     \E task \in backend : task.content = Strip(calls[j].content)

\* The first of two subtask calls was rejected.
C6_Witness ==
    /\ pc = "done"
    /\ Len(calls) = 2
    /\ calls[2].outcome = "rejected"
    /\ Len(list_of_tasks) = 2
    /\ Cardinality(backend) = 1

C8_OverrideWins ==
    \A i \in 1..Len(calls) :
        IF OverrideGiven
        THEN /\ calls[i].priority = DictGet(request.structured.d, "priority")
             /\ calls[i].due_date = DictGet(request.structured.d, "due_date")
             /\ calls[i].labels = DictGet(request.structured.d, "labels")
        ELSE given.written =>
                /\ calls[i].priority = IntV(given.suggestion.priority)
                /\ calls[i].due_date = StrV(given.suggestion.due_date)
                /\ calls[i].labels = ListV(given.suggestion.labels)

\* A subtask call made under an override that differs from the content.
C8_Witness ==
    /\ OverrideGiven
    /\ given.written
    /\ Len(calls) >= 2
    /\ calls[2].priority = IntV(4)
    /\ calls[2].priority # IntV(given.suggestion.priority)

\* C9: every call carries the explicit project id when it is not blank, and
\* the account's default project id otherwise.
C9_ExplicitProjectFirst ==
    \A i \in 1..Len(calls) :
        calls[i].project_id =
            IF ExplicitProjectGiven THEN Strip(PyStr(request.project_id))
            ELSE Strip(account.todoist_project_id.s)

\* A subtask call of a request with both an explicit and a default project id.
C9_Witness ==
    /\ Len(calls) >= 2
    /\ ExplicitProjectGiven
    /\ DefaultProjectGiven
    /\ calls[2].project_id = <<"p", "1">>

\* C10 (as claimed): content without a Task Summary section is answered with
\* a validation error (400) and no create call.
C10_MissingSummaryIsValidationError ==
    (pc = "done" /\ Authorised /\ ~ContentIsBlank
        /\ (ExplicitProjectGiven \/ DefaultProjectGiven)
        /\ given.written /\ ~given.has_summary)
        => /\ response.status = 400
           /\ calls = <<>>

-----------------------------------------------------------------------------
(* The text pipeline on its own: format_todo_suggestion_text,                *)
(* split_content_into_dict and build_structured_payload_from_sections        *)
(* applied one after the other, started from a suggestion, from a text or    *)
(* from a section map.  It uses the variables content, sections and          *)
(* structured_payload of the handler; given records what the run started     *)
(* from, and pc how far it has come.                                         *)

\* Suggestions as the model can return them: the fields are free text, the
\* priority is validated to 1..4, tasks and labels may be empty lists.
ProjectPool == {<<"H","o","m","e">>, <<" ","H","o","m","e">>, <<>>}
TaskListPool ==
    {<<>>, <<<<"m","i","l","k">>>>, <<<<"m","i","l","k">>, <<"e","g","g","s">>>>, <<<<"-","t","e","a">>, <<"m","i","l","k">>>>,
     <<<<"t","e","a"," ">>>>, <<<<"a","\n","b">>>>, <<<<"!","!","x","!","!">>>>}
DueDatePool == {<<>>, <<"2","0","2","6","-","0","1","-","0","5">>}
LabelListPool == {<<>>, <<<<"w","o","r","k">>>>, <<<<"w","o","r","k">>, <<"i","t","'","s">>>>}
PriorityPool == {1, 4}

PipelineSuggestions ==
    {[project |-> p, task_summary |-> SummaryText, tasks |-> t, priority |-> q,
      due_date |-> d, labels |-> l] :
        p \in ProjectPool, t \in TaskListPool, q \in PriorityPool,
        d \in DueDatePool, l \in LabelListPool}

\* Texts: every sequence of at most MaxLines lines of the pool, joined by
\* line breaks.
MaxLines == 3

LinePool ==
    {<<"!","!","a","!","!">>, <<"!","!","a","!","!",":"," ","1">>, <<" ","!","!"," ","a"," ","!","!",":"," "," ","2"," ">>, <<"!","!","b","!","!",":">>, <<"!","!"," ","!","!",":"," ","y">>,
     <<"!","!","!","!">>, <<"!","!","a","!","b","!","!">>, <<"x">>, <<" ","z"," ">>, <<>>}

RECURSIVE LineSeqs(_)
LineSeqs(n) ==
    IF n = 0 THEN {<<>>}
    ELSE LineSeqs(n - 1)
         \cup {Append(ls, l) : ls \in {s \in LineSeqs(n - 1) : Len(s) = n - 1}, l \in LinePool}

\* Section maps: each section is absent or holds one of the texts of its pool.
Absent == <<"absent">>

SectionPools ==
    [Project |-> {Absent, <<" "," ">>, <<" ","H","o","m","e"," ">>},
     TaskSummary |-> {Absent, <<"B","u","y"," ","g","r","o","c","e","r","i","e","s">>},
     Tasks |-> {Absent, <<>>, <<"-"," ","m","i","l","k","\n","\n"," ","-"," ","e","g","g","s"," ">>, <<"-">>, <<" ","\n">>},
     Task |-> {Absent, <<"-"," ","t","e","a">>},
     Priority |-> {Absent, <<>>, <<" ","2"," ">>, <<"h","i","g","h">>, <<"+","4">>, <<"-","3">>, <<"0","0","7">>, <<"4",".","0">>},
     DueDate |-> {Absent, <<>>, <<" ","2","0","2","6","-","0","2","-","0","9"," ">>},
     Labels |-> {Absent, <<" "," ">>, <<"[","]">>, <<"[","'","w","o","r","k","'",","," ","'","u","r","g","e","n","t","'","]">>, <<"w","o","r","k",","," ","u","r","g","e","n","t">>,
                 <<"1",","," ","2">>, <<"5">>, <<"a",",",",","b">>, <<",">>, <<"{","[","1","]",":"," ","2","}">>}]

SectionNames ==
    [Project |-> <<"P","r","o","j","e","c","t">>, TaskSummary |-> TaskSummaryKey, Tasks |-> TasksKey,
     Task |-> <<"T","a","s","k">>, Priority |-> <<"P","r","i","o","r","i","t","y">>, DueDate |-> <<"D","u","e"," ","D","a","t","e">>,
     Labels |-> <<"L","a","b","e","l","s">>]

SectionMap(choice) ==
    LET present == {f \in DOMAIN choice : choice[f] # Absent}
    IN  [name \in {SectionNames[f] : f \in present} |->
            choice[CHOOSE f \in present : SectionNames[f] = name]]

SectionMaps ==
    {SectionMap(choice) :
        choice \in [Project : SectionPools.Project, TaskSummary : SectionPools.TaskSummary,
                    Tasks : SectionPools.Tasks, Task : SectionPools.Task,
                    Priority : SectionPools.Priority, DueDate : SectionPools.DueDate,
                    Labels : SectionPools.Labels]}

\* What a run of the pipeline started from.
FromSuggestion(s) == [kind |-> "suggestion", suggestion |-> s, lines |-> <<>>, sections |-> <<>>]
FromLines(ls) == [kind |-> "lines", suggestion |-> NoSuggestion, lines |-> ls, sections |-> <<>>]
FromSections(m) == [kind |-> "sections", suggestion |-> NoSuggestion, lines |-> <<>>, sections |-> m]

InitPipeline ==
    /\ \/ \E s \in PipelineSuggestions :
             given = FromSuggestion(s) /\ pc = "suggested" /\ content = <<>> /\ sections = <<>>
       \/ \E ls \in LineSeqs(MaxLines) :
             given = FromLines(ls) /\ pc = "text" /\ content = Join(ls, <<"\n">>) /\ sections = <<>>
       \/ \E m \in SectionMaps :
             given = FromSections(m) /\ pc = "parsed" /\ content = <<>> /\ sections = m
    /\ structured_payload = EmptyDict
    /\ logged_in = TRUE
    /\ account = CHOOSE a \in Accounts : TRUE
    /\ request = [content |-> NoneV, structured |-> NoneV, project_id |-> NoneV]
    /\ project_id = <<>>
    /\ list_of_tasks = <<>>
    /\ todoist_response = NoneV
    /\ subtask_index = 0
    /\ calls = <<>>
    /\ backend = {}
    /\ next_id = 1
    /\ response = NoResponse
    /\ session_storage = NoSelection
    /\ language_call = NoCall

handler_vars ==
    <<logged_in, account, request, given, project_id, list_of_tasks, todoist_response,
      subtask_index, calls, backend, next_id, response, session_storage, language_call>>

\* content = format_todo_suggestion_text(suggestion)
Format ==
    /\ pc = "suggested"
    /\ content' = format_todo_suggestion_text(given.suggestion)
    /\ pc' = "text"
    /\ UNCHANGED <<sections, structured_payload, handler_vars>>

\* sections = split_content_into_dict(content)
Parse ==
    /\ pc = "text"
    /\ sections' = split_content_into_dict(content)
    /\ pc' = "parsed"
    /\ UNCHANGED <<content, structured_payload, handler_vars>>

\* structured_payload = build_structured_payload_from_sections(sections), or
\* the exception that escapes the call.
Build ==
    /\ pc = "parsed"
    /\ IF BuildRaises(sections)
       THEN pc' = "raised" /\ UNCHANGED structured_payload
       ELSE /\ structured_payload' = build_structured_payload_from_sections(sections)
            /\ pc' = "built"
    /\ UNCHANGED <<content, sections, handler_vars>>

NextPipeline == Format \/ Parse \/ Build

SpecPipeline == InitPipeline /\ [][NextPipeline]_vars

-----------------------------------------------------------------------------
(* Properties of the text pipeline *)

Chars(x) == {x[k] : k \in 1..Len(x)}
HasBangs(x) == \E k \in 1..(Len(x) - 1) : x[k] = "!" /\ x[k + 1] = "!"
Trimmed(x) == Strip(x) = x
OneLine(x) == "\n" \notin Chars(x)

\* The text fields of a suggestion
TextFields(s) ==
    {s.project, s.task_summary, s.due_date}
    \cup {s.tasks[k] : k \in 1..Len(s.tasks)} \cup {s.labels[k] : k \in 1..Len(s.labels)}

\* str(labels) reads back as the same list: the quoting needs no escapes
LabelsUnambiguous(s) ==
    \A k \in 1..Len(s.labels) :
        /\ "\\" \notin Chars(s.labels[k]) /\ OneLine(s.labels[k])
        /\ ~("'" \in Chars(s.labels[k]) /\ "\"" \in Chars(s.labels[k]))

RoundTripPrecondition(s) ==
    /\ s.tasks # <<>>
    /\ \A x \in TextFields(s) : ~HasBangs(x)
    /\ LabelsUnambiguous(s)

\* What the trimming and the line-wise parsing leave alone
CleanFields(s) ==
    /\ s.project # <<>> /\ s.task_summary # <<>>
    /\ \A x \in {s.project, s.task_summary, s.due_date} \cup {s.tasks[k] : k \in 1..Len(s.tasks)} :
          Trimmed(x) /\ OneLine(x)

RoundTripDone == pc = "built" /\ given.kind = "suggestion"

\* C11 as stated: for every suggestion with a non-empty tasks list, no "!!"
\* in any field and unambiguous labels, the payload built from the parsed
\* formatted text has project, task_summary, tasks, priority (an integer),
\* due_date and labels equal to the suggestion's.
C11_RoundTripAsStated ==
    (RoundTripDone /\ RoundTripPrecondition(given.suggestion)) =>
        LET s == given.suggestion
        IN  /\ DictGet(structured_payload, "project") = StrV(s.project)
            /\ DictGet(structured_payload, "task_summary") = StrV(s.task_summary)
            /\ DictGet(structured_payload, "tasks") = ListV(s.tasks)
            /\ DictGet(structured_payload, "priority") = IntV(s.priority)
            /\ DictGet(structured_payload, "due_date") = StrV(s.due_date)
            /\ DictGet(structured_payload, "labels") = ListV(s.labels)

\* C11 amended: the round trip holds when, in addition, project and
\* task_summary are non-empty and project, task_summary, due_date and every
\* task are single lines without leading or trailing whitespace; an empty
\* due_date or an empty labels list comes back as an absent key.
C11_RoundTrip ==
    (RoundTripDone /\ RoundTripPrecondition(given.suggestion) /\ CleanFields(given.suggestion)) =>
        LET s == given.suggestion
        IN  /\ DictGet(structured_payload, "project") = StrV(s.project)
            /\ DictGet(structured_payload, "task_summary") = StrV(s.task_summary)
            /\ DictGet(structured_payload, "tasks") = ListV(s.tasks)
            /\ DictGet(structured_payload, "priority") = IntV(s.priority)
            /\ IF s.due_date = <<>> THEN "due_date" \notin structured_payload.keys
               ELSE DictGet(structured_payload, "due_date") = StrV(s.due_date)
            /\ IF s.labels = <<>> THEN "labels" \notin structured_payload.keys
               ELSE DictGet(structured_payload, "labels") = ListV(s.labels)

C11_Witness ==
    /\ RoundTripDone
    /\ RoundTripPrecondition(given.suggestion) /\ CleanFields(given.suggestion)
    /\ Len(given.suggestion.tasks) = 2 /\ Len(given.suggestion.labels) = 2
    /\ given.suggestion.due_date # <<>>
    /\ DictGet(structured_payload, "tasks") = ListV(given.suggestion.tasks)

\* The header lines of a text, read with the pattern of the parser, and the
\* text one occurrence of a header contributes: its inline value and the
\* lines up to the next header.
IsHeader(raw_line) == key_pattern(Strip(raw_line)).matched
HeaderKey(raw_line) == Strip(key_pattern(Strip(raw_line)).key)
HeaderIndexes(lines, key) ==
    {i \in 1..Len(lines) : IsHeader(lines[i]) /\ HeaderKey(lines[i]) = key}
FirstOccurrence(lines, key) ==
    CHOOSE i \in HeaderIndexes(lines, key) : \A j \in HeaderIndexes(lines, key) : i <= j
LastOccurrence(lines, key) ==
    CHOOSE i \in HeaderIndexes(lines, key) : \A j \in HeaderIndexes(lines, key) : j <= i
OccurrenceEnd(lines, i) ==
    LET later == {j \in (i + 1)..Len(lines) : IsHeader(lines[j])}
    IN  IF later = {} THEN Len(lines) + 1 ELSE CHOOSE j \in later : \A m \in later : j <= m
OccurrenceText(lines, i) ==
    LET inline == key_pattern(Strip(lines[i])).inline
        body == [k \in 1..(OccurrenceEnd(lines, i) - i - 1) |-> RStrip(lines[i + k])]
    IN  Strip(Join((IF inline # <<>> THEN <<inline>> ELSE <<>>) \o body, <<"\n">>))

ParsedLines == pc \in {"parsed", "built", "raised"} /\ given.kind = "lines"

\* C12: a key that occurs in several header lines is in the map, and its
\* value is the stripped inline value and body of its last occurrence, with
\* nothing of the earlier occurrences.
C12_LastOccurrenceWins ==
    ParsedLines =>
        \A i \in 1..Len(given.lines) :
            (IsHeader(given.lines[i])
             /\ Cardinality(HeaderIndexes(given.lines, HeaderKey(given.lines[i]))) >= 2) =>
                LET key == HeaderKey(given.lines[i])
                IN  /\ key \in DOMAIN sections
                    /\ sections[key] = OccurrenceText(given.lines, LastOccurrence(given.lines, key))

C12_Witness ==
    /\ ParsedLines
    /\ \E key \in DOMAIN sections :
          /\ Cardinality(HeaderIndexes(given.lines, key)) >= 2
          /\ OccurrenceText(given.lines, FirstOccurrence(given.lines, key)) # <<>>
          /\ sections[key] # <<>>
          /\ sections[key] # OccurrenceText(given.lines, FirstOccurrence(given.lines, key))

\* C13: every key of the map returned by the parser is a non-empty string
\* without "!".
C13_KeysNonEmptyWithoutBang ==
    ParsedLines => \A key \in DOMAIN sections : key # <<>> /\ "!" \notin Chars(key)

\* C14: lines before the first header contribute to no section value (the
\* map is that of the text from the first header on), a text without a header
\* line gives the empty map, and the payload built from the empty map has no
\* keys.
C14_PreambleDropped ==
    ParsedLines =>
        LET lines == given.lines
            headers == {i \in 1..Len(lines) : IsHeader(lines[i])}
            first == IF headers = {} THEN Len(lines) + 1
                     ELSE CHOOSE i \in headers : \A j \in headers : i <= j
        IN  /\ headers = {} => sections = <<>>
            /\ DOMAIN sections = {HeaderKey(lines[i]) : i \in headers}
            /\ sections = split_content_into_dict(Join(SubSeq(lines, first, Len(lines)), <<"\n">>))
            /\ (pc = "built" /\ DOMAIN sections = {}) => structured_payload.keys = {}

C14_Witness ==
    /\ ParsedLines /\ pc = "built"
    /\ Len(given.lines) >= 2
    /\ ~IsHeader(given.lines[1]) /\ Strip(given.lines[1]) # <<>>
    /\ IsHeader(given.lines[2])
    /\ DOMAIN sections # {}

\* The section texts the builder was called with, trimmed ("" when absent)
Built == pc = "built"
SectionText(name) == IF name \in DOMAIN sections THEN Strip(sections[name]) ELSE <<>>
LabelsText == SectionText(SectionNames.Labels)
PriorityText == SectionText(SectionNames.Priority)

\* C15: if the payload has the key labels, its value is a non-empty sequence.
C15_LabelsNeverEmpty ==
    (Built /\ "labels" \in structured_payload.keys) =>
        /\ DictGet(structured_payload, "labels").kind = "list"
        /\ DictGet(structured_payload, "labels").l # <<>>

\* The literal sequence a Labels text denotes, if any: a bracketed list or a
\* tuple, with the strings of its elements.
LabelsLiteral ==
    LET parsed == literal_eval(LabelsText)
        pieces == Elements(LabelsText)
        isTuple == parsed.ok /\ ~parsed.isList /\ Len(pieces) >= 2
    IN  [ok |-> parsed.ok,
         isSequence |-> parsed.ok /\ (parsed.isList \/ isTuple),
         elems |-> IF parsed.isList THEN parsed.elems
                   ELSE IF isTuple THEN [k \in 1..Len(pieces) |-> Atom(pieces[k]).str]
                   ELSE <<>>,
         scalar |-> parsed.scalar]

\* C16: a Labels text that is a literal sequence yields one label per
\* element; a literal scalar yields that one label; a text that is no literal
\* yields its comma-separated pieces, trimmed, without the empty ones.
C16_LabelsPerElement ==
    (Built /\ LabelsText # <<>>) =>
        LET lit == LabelsLiteral
            pieces == StripEach(FilterNonBlank(Split(LabelsText, <<",">>)))
            labels == DictGet(structured_payload, "labels")
        IN  IF lit.isSequence
            THEN IF lit.elems = <<>> THEN labels \in {NoneV, ListV(<<>>)}
                 ELSE labels = ListV(lit.elems)
            ELSE IF lit.ok THEN labels = ListV(<<lit.scalar>>)
            ELSE IF pieces = <<>> THEN labels = NoneV
            ELSE labels = ListV(pieces)

\* C17: no key of the payload has a null or empty value; project,
\* task_summary, priority and due_date are present exactly when their section
\* is non-empty after trimming, the three texts equal to the trimmed section;
\* tasks is present only with a non-empty sequence.
NullOrEmpty(v) ==
    \/ v.kind = "none"
    \/ v.kind = "str" /\ v.s = <<>>
    \/ v.kind = "list" /\ v.l = <<>>

TrimmedFieldsPresent ==
    /\ \A f \in {"Project", "TaskSummary", "Priority", "DueDate"} :
          LET key == CASE f = "Project" -> "project" [] f = "TaskSummary" -> "task_summary"
                       [] f = "Priority" -> "priority" [] f = "DueDate" -> "due_date"
          IN  /\ key \in structured_payload.keys <=> SectionText(SectionNames[f]) # <<>>
              /\ (key \in structured_payload.keys /\ f # "Priority") =>
                     structured_payload.val[key] = StrV(SectionText(SectionNames[f]))
    /\ "tasks" \in structured_payload.keys =>
          /\ structured_payload.val["tasks"].kind = "list"
          /\ structured_payload.val["tasks"].l # <<>>

C17_NoNullOrEmptyValue ==
    Built =>
        /\ \A key \in structured_payload.keys : ~NullOrEmpty(structured_payload.val[key])
        /\ TrimmedFieldsPresent

\* C18: with a section Task and no section Tasks, the payload's tasks are
\* the items of the Task section.
C18_TaskAlias ==
    (Built /\ SectionNames.Task \in DOMAIN sections /\ SectionNames.Tasks \notin DOMAIN sections) =>
        LET items == TaskLines(SplitLines(sections[SectionNames.Task]))
        IN  DictGet(structured_payload, "tasks") = IF items # <<>> THEN ListV(items) ELSE NoneV

\* C19: no call of the formatter, the parser or the builder ends with an
\* exception.
C19_NeverRaises == pc # "raised"

\* C20: for a non-empty Priority section the payload's priority is the
\* integer the trimmed text denotes or, when it denotes none, the trimmed
\* text itself.
C20_PriorityIntOrText ==
    (Built /\ PriorityText # <<>>) =>
        DictGet(structured_payload, "priority") =
            IF IntParse(PriorityText).ok THEN IntV(IntParse(PriorityText).v)
            ELSE StrV(PriorityText)

C20_Witness ==
    /\ Built /\ PriorityText # <<>>
    /\ ~IntParse(PriorityText).ok
    /\ DictGet(structured_payload, "priority") = StrV(PriorityText)

\* The non-blank lines of the Tasks section, trimmed, in line order
TaskSourceLines ==
    IF SectionNames.Tasks \in DOMAIN sections
    THEN FilterNonBlank(StripEach(SplitLines(sections[SectionNames.Tasks])))
    ELSE <<>>

\* C24: every element of the payload's tasks is a non-empty string without
\* leading or trailing whitespace; the elements are the non-blank lines of
\* the Tasks section in line order, each with at most one leading "-" removed.
C24_TaskElements ==
    (Built /\ "tasks" \in structured_payload.keys) =>
        LET tasks == structured_payload.val["tasks"].l
            lines == TaskSourceLines
        IN  /\ Len(tasks) = Len(lines)
            /\ \A k \in 1..Len(tasks) :
                  /\ tasks[k] # <<>>
                  /\ Trimmed(tasks[k])
                  /\ \/ tasks[k] = lines[k]
                     \/ Head(lines[k]) = "-" /\ tasks[k] = Strip(Tail(lines[k]))

-----------------------------------------------------------------------------
(* Further properties of the handler *)

\* C21: the item list used for the subtasks has one entry per non-blank item
\* line of the Tasks section of the text, in line order, each the line without
\* its "- " marker and surrounding whitespace, whether or not an override
\* was supplied.
C21_ItemPerLine ==
    (Len(calls) >= 1 /\ calls[1].outcome = "created") =>
        StripEach(list_of_tasks) = given.items

\* C22: a call rejected by the backend with status code c ends the run with
\* a failure of status c; a failure of the client that is neither a refused
\* content nor a rejection ends it with the generic connection failure.
C22_FailureStatus ==
    (pc = "done" /\ Len(calls) >= 1) =>
        LET last == calls[Len(calls)]
        IN  /\ last.outcome = "rejected" =>
                  /\ ~response.success
                  /\ response.status = last.status
                  /\ response.error = "todoist_error"
            /\ last.outcome \in {"unreachable", "undecodable"} =>
                  /\ ~response.success
                  /\ response.status = 502
                  /\ response.error = "connection_error"

-----------------------------------------------------------------------------
(* The language selection kept in the session: ensure_language_selection     *)
(* and update_language_selection (services/language_preferences.py; the      *)
(* copies in uploader_main.py 110-139 are the same code on flask's session). *)

LowerLetters == <<"a","b","c","d","e","f","g","h","i","j","k","l","m","n","o","p","q","r","s","t","u","v","w","x","y","z">>
UpperLetters == <<"A","B","C","D","E","F","G","H","I","J","K","L","M","N","O","P","Q","R","S","T","U","V","W","X","Y","Z">>

\* str.upper() and str.lower() on texts of ASCII letters and other characters
Upper(s) ==
    [k \in 1..Len(s) |->
        IF \E j \in 1..26 : LowerLetters[j] = s[k]
        THEN UpperLetters[CHOOSE j \in 1..26 : LowerLetters[j] = s[k]] ELSE s[k]]

Lower(s) ==
    [k \in 1..Len(s) |->
        IF \E j \in 1..26 : UpperLetters[j] = s[k]
        THEN LowerLetters[CHOOSE j \in 1..26 : UpperLetters[j] = s[k]] ELSE s[k]]

\* LANGUAGE_OPTIONS[key]["code"]
LANGUAGE_OPTIONS == (<<"U","S">> :> <<"e","n">>) @@ (<<"P","L">> :> <<"p","l">>) @@ (<<"U","A">> :> <<"u","k">>)

LANGUAGE_CODE_TO_KEY ==
    [code \in {Lower(LANGUAGE_OPTIONS[key]) : key \in DOMAIN LANGUAGE_OPTIONS} |->
        CHOOSE key \in DOMAIN LANGUAGE_OPTIONS : Lower(LANGUAGE_OPTIONS[key]) = code]

FALLBACK_LANGUAGE_KEY == <<"U","S">>

derive_default_language_key(acc) ==
    LET preferred == IF Truthy(acc.whisper_language) THEN Strip(acc.whisper_language.s) ELSE <<>>
    IN  IF preferred = <<>> THEN FALLBACK_LANGUAGE_KEY
        ELSE IF Upper(preferred) \in DOMAIN LANGUAGE_OPTIONS THEN Upper(preferred)
        ELSE IF Lower(preferred) \in DOMAIN LANGUAGE_CODE_TO_KEY
             THEN LANGUAGE_CODE_TO_KEY[Lower(preferred)]
        ELSE FALLBACK_LANGUAGE_KEY

Selection(key) == [whisper_language_key |-> StrV(key), whisper_language |-> StrV(LANGUAGE_OPTIONS[key])]

\* (language_code or "").lower() fails for a stored value that is truthy and
\* no string: AttributeError, before anything is stored.
EnsureRaises(storage) ==
    Truthy(storage.whisper_language) /\ storage.whisper_language.kind # "str"

\* Variant of ensure_language_selection that keeps the stored code of a
\* supported stored key.
ensure_language_selectionKeepingCode(acc, storage) ==
    LET language_key == storage.whisper_language_key
        language_code == storage.whisper_language
        normalized_code == IF Truthy(language_code) THEN Lower(language_code.s) ELSE <<>>
    IN  IF language_key.kind = "str" /\ language_key.s \in DOMAIN LANGUAGE_OPTIONS
        THEN [whisper_language_key |-> language_key, whisper_language |-> language_code]
        ELSE IF normalized_code \in DOMAIN LANGUAGE_CODE_TO_KEY
        THEN Selection(LANGUAGE_CODE_TO_KEY[normalized_code])
        ELSE Selection(derive_default_language_key(acc))

\* The storage after ensure_language_selection(account, session_storage)
ensure_language_selection(acc, storage) ==
    LET language_key == storage.whisper_language_key
        language_code == storage.whisper_language
        normalized_code == IF Truthy(language_code) THEN Lower(language_code.s) ELSE <<>>
    IN  IF language_key.kind = "str" /\ language_key.s \in DOMAIN LANGUAGE_OPTIONS
        THEN Selection(language_key.s)
        ELSE IF normalized_code \in DOMAIN LANGUAGE_CODE_TO_KEY
        THEN Selection(LANGUAGE_CODE_TO_KEY[normalized_code])
        ELSE Selection(derive_default_language_key(acc))

\* update_language_selection raises ValueError
UpdateRaises(language_key) == Upper(language_key) \notin DOMAIN LANGUAGE_OPTIONS

\* The storage after update_language_selection(language_key, session_storage)
update_language_selection(language_key, storage) ==
    IF UpdateRaises(language_key) THEN storage ELSE Selection(Upper(language_key))

\* Values a session can hold under the two names, the account's configured
\* language, and the keys a client can send.
StoredValues ==
    {NoneV, StrV(<<>>), StrV(<<"U","S">>), StrV(<<"p","l">>), StrV(<<"U","K">>), StrV(<<"d","e">>), IntV(7)}
AccountLanguages == {NoneV, StrV(<<" ","p","l"," ">>), StrV(<<"u","a">>), StrV(<<"U","k">>), StrV(<<"f","r">>)}
UpdateKeys == {<<"U","S">>, <<"p","l">>, <<"U","a">>, <<"e","n">>, <<"X","X">>, <<>>}

InitLanguage ==
    /\ session_storage \in [whisper_language_key : StoredValues, whisper_language : StoredValues]
    /\ language_call = NoCall
    /\ \E w \in AccountLanguages :
          account = [todoist_api_token |-> NoneV, todoist_project_id |-> NoneV,
                     whisper_language |-> w]
    /\ logged_in = TRUE
    /\ request = [content |-> NoneV, structured |-> NoneV, project_id |-> NoneV]
    /\ given = NoText
    /\ pc = "start"
    /\ content = <<>>
    /\ sections = <<>>
    /\ structured_payload = EmptyDict
    /\ project_id = <<>>
    /\ list_of_tasks = <<>>
    /\ todoist_response = NoneV
    /\ subtask_index = 0
    /\ calls = <<>>
    /\ backend = {}
    /\ next_id = 1
    /\ response = NoResponse

request_vars ==
    <<logged_in, account, request, given, pc, content, sections, structured_payload,
      project_id, list_of_tasks, todoist_response, subtask_index, calls, backend,
      next_id, response>>

\* A call of ensure_language_selection on the session
Ensure ==
    /\ language_call' = [op |-> "ensure", arg |-> NoneV,
                         outcome |-> IF EnsureRaises(session_storage) THEN "raised" ELSE "returned",
                         before |-> session_storage]
    /\ session_storage' = IF EnsureRaises(session_storage) THEN session_storage
                          ELSE ensure_language_selection(account, session_storage)
    /\ UNCHANGED request_vars

\* A call of update_language_selection on the session
Update ==
    /\ \E language_key \in UpdateKeys :
          /\ language_call' = [op |-> "update", arg |-> StrV(language_key),
                               outcome |-> IF UpdateRaises(language_key) THEN "raised" ELSE "returned",
                               before |-> session_storage]
          /\ session_storage' = update_language_selection(language_key, session_storage)
    /\ UNCHANGED request_vars

NextLanguage == Ensure \/ Update

SpecLanguage == InitLanguage /\ [][NextLanguage]_vars

\* C23: after every call that returns, the stored key is a key of
\* LANGUAGE_OPTIONS and the stored language is that key's code; an update with
\* an unsupported key raises and leaves both stored values as they were.
C23_SelectionSupported ==
    /\ language_call.outcome = "returned" =>
          /\ session_storage.whisper_language_key.kind = "str"
          /\ session_storage.whisper_language_key.s \in {<<"U","S">>, <<"P","L">>, <<"U","A">>}
          /\ session_storage.whisper_language =
                StrV(CASE session_storage.whisper_language_key.s = <<"U","S">> -> <<"e","n">>
                       [] session_storage.whisper_language_key.s = <<"P","L">> -> <<"p","l">>
                       [] session_storage.whisper_language_key.s = <<"U","A">> -> <<"u","k">>)
    /\ (language_call.op = "update"
        /\ Upper(language_call.arg.s) \notin {<<"U","S">>, <<"P","L">>, <<"U","A">>}) =>
          /\ language_call.outcome = "raised"
          /\ session_storage = language_call.before

\* An unsupported key was refused after a selection had been made.
C23_Witness ==
    /\ language_call.op = "update" /\ language_call.outcome = "raised"
    /\ language_call.arg = StrV(<<"e","n">>)
    /\ session_storage = Selection(<<"U","A">>)

====
